---- MODULE Spec2Model ----
(***************************************************************************)
(* Model of chat.py: the OAuth 2.0 authorization-code capture flow         *)
(* (OAuthCallbackHandler, SnowflakeMCPClient.authenticate) and the         *)
(* JSON-RPC session of SnowflakeMCPClient (initialize_mcp_session,         *)
(* discover_tools, call_tool) with its request-id counter session_id and   *)
(* its tool registry.                                                      *)
(***************************************************************************)
EXTENDS Integers, Sequences, FiniteSets, TLC

\* ------------------------------------------------------------------ bounds
MaxCalls == 3      \* RPC calls made on one client object
MaxAuth == 2       \* invocations of authenticate() in one process
MaxBacklog == 2    \* connection attempts queued on the listening socket
MaxTurns == 2      \* turns of the interactive session

\* --------------------------------------------------------------- constants
HTTP_OK == 200     \* the only status the client accepts

None == "None"

VARIABLES
    \* SnowflakeMCPClient fields
    session_id,          \* self.session_id
    tools,               \* self.tools
    access_token,        \* self.access_token
    \* history of the RPC session
    sent,                \* outbound envelopes, in send order
    last,                \* the last RPC call: envelope id, response, outcome
    \* OAuthCallbackHandler class attribute
    authorization_code,  \* OAuthCallbackHandler.authorization_code
    \* authenticate(): position and per-invocation record
    authPc,              \* "idle" | "waiting" | "exchanging"
    authCount,           \* invocations of authenticate() started so far
    auth,                \* record of the current / last invocation
    \* the listening socket on localhost:3000
    listener,            \* 0 = port free, n = bound by invocation n
    backlog,             \* connection attempts not yet accepted
    \* main(): the process environment, position, and the interactive loop
    env,                 \* names of the environment variables that are set
    mainPc,              \* "start" | "authenticate" | "initialize" |
                         \* "discover" | "session" | "done" | "failed" |
                         \* "interrupted" | "exit"
    turn                 \* record of the interactive session's turns

rpcVars == <<session_id, tools, sent, last>>
authVars == <<authorization_code, authPc, authCount, auth, listener, backlog>>
mainVars == <<env, mainPc, turn>>
vars == <<session_id, tools, access_token, sent, last,
          authorization_code, authPc, authCount, auth, listener, backlog,
          env, mainPc, turn>>

\* ---------------------------------------------------------- RPC: the inputs
\* A tool as the server lists it; described = the entry has a "description".
Tool(n, d) == [name |-> n, described |-> d]

ToolLists ==
    { <<>>,
      <<Tool("search", TRUE)>>,
      <<Tool("search", TRUE), Tool("query", TRUE)>>,
      <<Tool("query", TRUE), Tool("search", TRUE)>>,
      <<Tool("legacy", FALSE)>> }

\* An HTTP response to a JSON-RPC POST.
\*   isJson    the body parses as a JSON object
\*   hasError  the object has a top-level "error" key
\*   hasResult the object has a top-level "result" key
\*   hasTools  result is an object with a "tools" key
\*   tools     result["tools"] (<<>> when there is none)
Response(s, j, e, r, h, t) ==
    [status |-> s, isJson |-> j, hasError |-> e, hasResult |-> r,
     hasTools |-> h, tools |-> t]

Responses ==
    { Response(s, TRUE, e, FALSE, FALSE, <<>>) :
          s \in {201, 302, 404}, e \in BOOLEAN }
    \cup { Response(200, FALSE, FALSE, FALSE, FALSE, <<>>) }
    \cup { Response(200, TRUE, e, r, FALSE, <<>>) :
          e \in BOOLEAN, r \in BOOLEAN }
    \cup { Response(200, TRUE, e, TRUE, TRUE, t) :
          e \in BOOLEAN, t \in ToolLists }

\* ------------------------------------------------- RPC: the response checks
\* `if response.status_code != 200: raise`
StatusAccepted_Any(r) == TRUE

StatusAccepted(r) == r.status = HTTP_OK

\* The checks shared by the three methods, in the order the code makes them:
\* status, response.json(), `"error" in result`.
ResponseCheck(r) ==
    IF ~StatusAccepted(r) THEN "transport"
    ELSE IF ~r.isJson THEN "decode"
    ELSE IF r.hasError THEN "protocol"
    ELSE "pass"

\* initialize_mcp_session: nothing more is read from the body that can raise
\* ('result' in result and isinstance(...) guard the serverInfo prints).
InitializeOutcome(r) ==
    IF ResponseCheck(r) # "pass" THEN ResponseCheck(r) ELSE "ok"

\* discover_tools: result["result"]["tools"] raises before any assignment;
\* tool["description"] in the print loop raises after both assignments.
DiscoverOutcome(r) ==
    IF ResponseCheck(r) # "pass" THEN ResponseCheck(r)
    ELSE IF ~r.hasTools THEN "key_error"
    ELSE IF \E i \in 1..Len(r.tools) : ~r.tools[i].described
         THEN "key_error_late"
    ELSE "ok"

\* call_tool: `return result["result"]` raises after session_id += 1.
CallToolOutcome(r) ==
    IF ResponseCheck(r) # "pass" THEN ResponseCheck(r)
    ELSE IF ~r.hasResult THEN "key_error_late"
    ELSE "ok"

\* `self.session_id += 1` is reached exactly when every check passed.
NextSessionId_Always(id, outcome) == id + 1

NextSessionId_Never(id, outcome) == id

NextSessionId(id, outcome) ==
    IF outcome \in {"ok", "key_error_late"} THEN id + 1 ELSE id

\* `self.tools = result["result"]["tools"]`
ToolsAfterDiscover_Merge(old, r, outcome) ==
    IF outcome \in {"ok", "key_error_late"} THEN old \o r.tools ELSE old

ToolsAfterDiscover(old, r, outcome) ==
    IF outcome \in {"ok", "key_error_late"} THEN r.tools ELSE old

\* What a method hands back when it returns: initialize_mcp_session returns
\* the whole response object (`return result`), discover_tools the tools
\* list (`return self.tools`), call_tool the result field
\* (`return result["result"]`); a method that raises hands back nothing.
Returned(method, outcome) ==
    IF outcome # "ok" THEN None
    ELSE IF method = "initialize" THEN "envelope"
    ELSE IF method = "tools/list" THEN "result.tools"
    ELSE "result"

\* The envelope posted by every method: "id": self.session_id, the method
\* name, and the bearer header built from self.access_token.
Envelope(method) ==
    [id |-> session_id, method |-> method, bearer |-> access_token]

\* One call: the envelope goes out, the response r comes back, the method
\* runs to its return or its raise.
Call(method, r, outcome, newTools) ==
    /\ Len(sent) < MaxCalls
    /\ sent' = Append(sent, [env |-> Envelope(method),
                             ok |-> outcome = "ok"])
    /\ session_id' = NextSessionId(session_id, outcome)
    /\ tools' = newTools
    /\ last' = [op |-> method, id |-> session_id, status |-> r.status,
                isJson |-> r.isJson,
                hasError |-> r.isJson /\ r.hasError, outcome |-> outcome,
                hasResult |-> r.hasResult,
                hasTools |-> r.hasTools, respTools |-> r.tools,
                toolsBefore |-> tools,
                returned |-> Returned(method, outcome)]
    /\ UNCHANGED <<access_token, authVars>>

initialize_mcp_session(r) ==
    Call("initialize", r, InitializeOutcome(r), tools)

discover_tools(r) ==
    Call("tools/list", r, DiscoverOutcome(r),
         ToolsAfterDiscover(tools, r, DiscoverOutcome(r)))

call_tool_ResetsTools(r) ==
    Call("tools/call", r, CallToolOutcome(r), <<>>)

call_tool(r) ==
    Call("tools/call", r, CallToolOutcome(r), tools)

\* --------------------------------------------------- OAuth: the inputs
Param(k, v) == [key |-> k, value |-> v]

\* Query strings of the requests that reach localhost:3000.
Queries ==
    { <<>>,
      <<Param("code", "c1")>>,
      <<Param("code", "c2")>>,
      <<Param("error", "access_denied")>>,
      <<Param("code", "")>>,
      <<Param("code", ""), Param("code", "c2")>>,
      <<Param("code", "c1"), Param("code", "c2")>> }

\* The token endpoint's answer: status, whether the body is JSON, and its
\* "access_token" field when it has one.
TokenResponse(s, j, h, t) ==
    [status |-> s, isJson |-> j, hasToken |-> h, token |-> t]

TokenResponses ==
    { TokenResponse(s, TRUE, FALSE, None) : s \in {201, 400} }
    \cup { TokenResponse(200, FALSE, FALSE, None),
           TokenResponse(200, TRUE, FALSE, None),
           TokenResponse(200, TRUE, TRUE, "tok123"),
           TokenResponse(200, TRUE, TRUE, "tok456") }

\* ------------------------------------------- OAuthCallbackHandler.do_GET
\* parse_qs(urlparse(self.path).query)[key]: the values given for key, in
\* order; blank values are dropped (keep_blank_values is off), so a key
\* with only blank values is not in the dictionary.
parse_qs(q, key) ==
    LET Kept(p) == p.key = key /\ p.value # ""
        kept == SelectSeq(q, Kept)
    IN  [i \in 1..Len(kept) |-> kept[i].value]

\* `if 'code' in query_components`
CodeInQuery(q) == parse_qs(q, "code") # <<>>

\* send_response(200) or send_response(400)
do_GET_status(q) == IF CodeInQuery(q) THEN 200 ELSE 400

\* `OAuthCallbackHandler.authorization_code = query_components['code'][0]`;
\* the else branch leaves the class attribute alone.
do_GET_code_KeepFirst(old, q) ==
    IF CodeInQuery(q) /\ old = None THEN parse_qs(q, "code")[1] ELSE old

do_GET_code(old, q) ==
    IF CodeInQuery(q) THEN parse_qs(q, "code")[1] ELSE old

\* server.handle_request() is called once, not in a loop: after one request
\* the listener serves no other.
ServesAgain_Loop(n) == TRUE

ServesAgain(n) == FALSE

\* The record of one invocation of authenticate():
\*   handled/query/status  the request do_GET answered, and its status
\*   responses             HTTP responses written by this invocation
\*   posted/posts          the code posted to the token endpoint, and how often
\*   codeBefore            OAuthCallbackHandler.authorization_code at entry
\*   tokenBefore           self.access_token at entry
\*   browser               webbrowser.open(auth_url) was called
\*   tokenStatus           status of the token endpoint's answer (0 = none)
NoAuth == [handled |-> FALSE, query |-> <<>>, status |-> 0, responses |-> 0,
           posted |-> None, posts |-> 0, outcome |-> None,
           codeBefore |-> None, tokenBefore |-> None,
           browser |-> FALSE, tokenStatus |-> 0]

\* ------------------------------------------ SnowflakeMCPClient.authenticate
\* Entry to `server = HTTPServer(('localhost', 3000), ...)`: the browser is
\* opened, then the port is bound; binding a port that an earlier, not yet
\* collected server still holds raises OSError.
AuthStart ==
    /\ authPc = "idle"
    /\ authCount < MaxAuth
    /\ authCount' = authCount + 1
    /\ IF listener # 0
       THEN /\ auth' = [NoAuth EXCEPT !.outcome = "bind_failed",
                                      !.browser = TRUE,
                                      !.codeBefore = authorization_code,
                                      !.tokenBefore = access_token]
            /\ UNCHANGED <<authPc, listener, backlog>>
       ELSE /\ auth' = [NoAuth EXCEPT !.browser = TRUE,
                                      !.codeBefore = authorization_code,
                                      !.tokenBefore = access_token]
            /\ authPc' = "waiting"
            /\ listener' = authCount + 1
            /\ backlog' = <<>>
    /\ UNCHANGED <<authorization_code, access_token, rpcVars>>

\* A client connects to the listening socket and sends GET <path>?<q>.
Connect(q) ==
    /\ listener # 0
    /\ Len(backlog) < MaxBacklog
    /\ backlog' = Append(backlog, q)
    /\ UNCHANGED <<authorization_code, authPc, authCount, auth, listener,
                   access_token, rpcVars>>

\* `self.access_token = token_data.get("access_token")`
AccessTokenAfter_Unchecked(old, t) ==
    IF t.isJson /\ t.hasToken THEN t.token ELSE None

AccessTokenAfter(old, t) ==
    IF t.status # HTTP_OK \/ ~t.isJson THEN old
    ELSE IF t.hasToken THEN t.token ELSE None

TokenOutcome(t) ==
    IF t.status # HTTP_OK THEN "exchange_failed"
    ELSE IF ~t.isJson THEN "decode"
    ELSE "ok"

\* server.handle_request() accepts the oldest connection and runs do_GET;
\* then the class attribute is read, and either the flow raises
\* "Authorization code not received." or the code is posted to the token
\* endpoint.
HandleRequest ==
    /\ authPc = "waiting"
    /\ backlog # <<>>
    /\ LET q == Head(backlog)
           code == do_GET_code(authorization_code, q)
           answered == [auth EXCEPT !.handled = TRUE,
                                    !.query = q,
                                    !.status = do_GET_status(q),
                                    !.responses = @ + 1]
       IN  /\ backlog' = Tail(backlog)
           /\ authorization_code' = code
           /\ IF ServesAgain(answered.responses)
              THEN /\ auth' = answered
                   /\ UNCHANGED authPc
              ELSE IF code = None
              THEN /\ auth' = [answered EXCEPT !.outcome = "no_code"]
                   /\ authPc' = "idle"
              ELSE /\ auth' = [answered EXCEPT !.posted = code,
                                               !.posts = @ + 1]
                   /\ authPc' = "exchanging"
    /\ UNCHANGED <<authCount, listener, access_token, rpcVars>>

\* The token endpoint answers the single POST.
TokenExchange(t) ==
    /\ authPc = "exchanging"
    /\ access_token' = AccessTokenAfter(access_token, t)
    /\ auth' = [auth EXCEPT !.outcome = TokenOutcome(t),
                             !.tokenStatus = t.status]
    /\ authPc' = "idle"
    /\ UNCHANGED <<authorization_code, authCount, listener, backlog, rpcVars>>

\* KeyboardInterrupt while blocked in handle_request() or in the POST.
Interrupt ==
    /\ authPc \in {"waiting", "exchanging"}
    /\ auth' = [auth EXCEPT !.outcome = "interrupted"]
    /\ authPc' = "idle"
    /\ UNCHANGED <<authorization_code, authCount, listener, backlog,
                   access_token, rpcVars>>

\* The steps authenticate() takes by itself once it waits: serving a request
\* that arrived, and reading the token endpoint's answer. There is no
\* timeout on handle_request() (HTTPServer.timeout is None).
AuthProgramStep == HandleRequest \/ (\E t \in TokenResponses : TokenExchange(t))

\* authenticate never calls server.server_close(): the socket stays bound
\* until the server object is garbage collected, some time after the flow
\* has ended; connections still queued on it are dropped.
ReleaseListener ==
    /\ authPc = "idle"
    /\ listener # 0
    /\ listener' = 0
    /\ backlog' = <<>>
    /\ UNCHANGED <<authorization_code, authPc, authCount, auth,
                   access_token, rpcVars>>

\* ------------------------------------------------------------------- Init
\* The environment variables the program reads: the three main() requires
\* and the four __init__ reads with a default.
RequiredVars_NoSecret == {"SNOWFLAKE_ACCOUNT", "OAUTH_CLIENT_ID"}

RequiredVars == {"SNOWFLAKE_ACCOUNT", "OAUTH_CLIENT_ID", "OAUTH_CLIENT_SECRET"}

DefaultedVars ==
    {"SNOWFLAKE_DATABASE", "SNOWFLAKE_SCHEMA", "MCP_SERVER_NAME",
     "SNOWFLAKE_ROLE"}

ConfigVars == RequiredVars \cup DefaultedVars

\* The interactive loop before its first turn.
\*   count     questions put to the graph so far
\*   outcomes  per question: "answered", or "raised" when the turn raised
\*   endedBy   what broke the loop: "exit" or "interrupt"
NoTurn == [count |-> 0, outcomes |-> <<>>, endedBy |-> None]

NoCall == [op |-> None, id |-> 0, status |-> 0, isJson |-> FALSE,
           hasError |-> FALSE, outcome |-> None, hasResult |-> FALSE,
           hasTools |-> FALSE, respTools |-> <<>>,
           toolsBefore |-> <<>>, returned |-> None]

ClientInit ==
    /\ session_id = 0
    /\ tools = <<>>
    /\ access_token = None
    /\ sent = <<>>
    /\ last = NoCall
    /\ authorization_code = None
    /\ authPc = "idle"
    /\ authCount = 0
    /\ auth = NoAuth
    /\ listener = 0
    /\ backlog = <<>>
    /\ mainPc = "start"
    /\ turn = NoTurn

\* A process in which every configuration variable is set.
Init == ClientInit /\ env = ConfigVars

Initialize == \E r \in Responses : initialize_mcp_session(r)

Discover == \E r \in Responses : discover_tools(r)

Invoke == \E r \in Responses : call_tool(r)

\* The three methods called in any order on one client object.
NextRpc ==
    \/ Initialize /\ UNCHANGED mainVars
    \/ Discover /\ UNCHANGED mainVars
    \/ Invoke /\ UNCHANGED mainVars

SpecRpc == Init /\ [][NextRpc]_vars

Arrive == \E q \in Queries : Connect(q)

Exchange == \E t \in TokenResponses : TokenExchange(t)

\* authenticate() called any number of times in one process.
NextAuth ==
    \/ AuthStart /\ UNCHANGED mainVars
    \/ Arrive /\ UNCHANGED mainVars
    \/ HandleRequest /\ UNCHANGED mainVars
    \/ Exchange /\ UNCHANGED mainVars
    \/ Interrupt /\ UNCHANGED mainVars
    \/ ReleaseListener /\ UNCHANGED mainVars

SpecAuth == Init /\ [][NextAuth]_vars

\* ------------------------------------------------------------------ main()
\* The environments main() is started in: everything set, one variable
\* unset, nothing set.
Envs == {ConfigVars} \cup { ConfigVars \ {v} : v \in ConfigVars } \cup {{}}

InitMain == ClientInit /\ env \in Envs

\* `missing_vars = [var for var in required_vars if not os.getenv(var)]`
MissingVars(e) == RequiredVars \ e

\* The stages run inside one try block: a stage that raises is caught by
\* `except Exception` at the end of main, which prints and returns; a stage
\* that returns is followed by the next statement.
AfterStage_Swallow(outcome, next) == next

AfterStage(outcome, next) == IF outcome = "ok" THEN next ELSE "failed"

\* main up to the first blocking point: the environment check, then the
\* client, setup_connection and authenticate() up to handle_request().
MainStart ==
    /\ mainPc = "start"
    /\ IF MissingVars(env) # {}
       THEN /\ mainPc' = "exit"
            /\ UNCHANGED <<access_token, rpcVars, authVars>>
       ELSE /\ AuthStart
            /\ mainPc' = AfterStage(IF auth'.outcome = None
                                    THEN "ok" ELSE auth'.outcome,
                                    "authenticate")
    /\ UNCHANGED <<env, turn>>

\* Connections made while handle_request() waits. (Those made after it has
\* returned are never accepted by the program.)
MainArrive ==
    /\ authPc = "waiting"
    /\ Arrive
    /\ UNCHANGED mainVars

MainHandleRequest ==
    /\ mainPc = "authenticate"
    /\ HandleRequest
    /\ mainPc' = IF authPc' = "idle"
                 THEN AfterStage(auth'.outcome, "authenticate")
                 ELSE "authenticate"
    /\ UNCHANGED <<env, turn>>

\* authenticate returns or raises; on return main goes on to
\* initialize_mcp_session.
MainExchange ==
    /\ mainPc = "authenticate"
    /\ \E t \in TokenResponses :
           /\ TokenExchange(t)
           /\ mainPc' = AfterStage(TokenOutcome(t), "initialize")
    /\ UNCHANGED <<env, turn>>

\* KeyboardInterrupt is no Exception: it passes the except clause and ends
\* the process.
MainInterrupt ==
    /\ mainPc = "authenticate"
    /\ Interrupt
    /\ mainPc' = "interrupted"
    /\ UNCHANGED <<env, turn>>

MainRelease == ReleaseListener /\ UNCHANGED mainVars

MainInitialize ==
    /\ mainPc = "initialize"
    /\ \E r \in Responses :
           /\ initialize_mcp_session(r)
           /\ mainPc' = AfterStage(InitializeOutcome(r), "discover")
    /\ UNCHANGED <<env, turn>>

\* discover_tools, then setup_llm and create_workflow (library calls that
\* return or raise), then interactive_session up to its first input().
MainDiscover ==
    /\ mainPc = "discover"
    /\ \E r \in Responses, setup \in {"ok", "setup_error"} :
           /\ discover_tools(r)
           /\ mainPc' = AfterStage(IF DiscoverOutcome(r) = "ok"
                                   THEN setup ELSE DiscoverOutcome(r),
                                   "session")
    /\ UNCHANGED <<env, turn>>

\* ------------------------------------------------- interactive_session
\* `except Exception as e: print(...)` inside the while loop: a turn that
\* raised is reported and the loop asks for the next input.
SessionAfter_Fatal(outcome) ==
    IF outcome = "raised" THEN "failed" ELSE "session"

SessionAfter(outcome) == "session"

\* One pass of the loop: input(), then break on an exit command or on
\* KeyboardInterrupt, else graph.ainvoke(state), which answers or raises.
SessionTurn(input, outcome) ==
    /\ mainPc = "session"
    /\ IF input \in {"exit", "interrupt"}
       THEN /\ turn' = [turn EXCEPT !.endedBy = input]
            /\ mainPc' = "done"
       ELSE /\ turn.count < MaxTurns
            /\ turn' = [turn EXCEPT !.count = @ + 1,
                                    !.outcomes = Append(@, outcome)]
            /\ mainPc' = SessionAfter(outcome)
    /\ UNCHANGED <<env, access_token, rpcVars, authVars>>

Turn ==
    \E input \in {"exit", "interrupt", "ask"},
       outcome \in {"answered", "raised"} : SessionTurn(input, outcome)

NextMain ==
    \/ MainStart
    \/ MainArrive
    \/ MainHandleRequest
    \/ MainExchange
    \/ MainInterrupt
    \/ MainRelease
    \/ MainInitialize
    \/ MainDiscover
    \/ Turn

SpecMain == InitMain /\ [][NextMain]_vars

\* ------------------------------------------------------ RPC session claims
AllOk == \A i \in 1..Len(sent) : sent[i].ok

IsSuccessStatus(s) == s \in 200..299

\* C1: next_id is 0 on a fresh session and, while every call made so far
\* succeeded, equals the number of calls made; the i-th envelope carried
\* the id i-1 (initialize 0, tools/list 1, tools/call 2).
C1_NextIdCountsSuccessfulCalls ==
    AllOk => /\ session_id = Len(sent)
             /\ \A i \in 1..Len(sent) : sent[i].env.id = i - 1

C1_Witness ==
    /\ Len(sent) = 3
    /\ AllOk
    /\ sent[1].env.method = "initialize"
    /\ sent[2].env.method = "tools/list"
    /\ sent[3].env.method = "tools/call"
    /\ session_id = 3

\* C2: a call answered with HTTP success and a body holding an `error` key
\* fails and next_id is still incremented by exactly one.
C2_ProtocolErrorAdvancesNextId ==
    last.outcome = "protocol" => session_id = last.id + 1

C4_TransportFailureKeepsNextId ==
    (last.op # None /\ ~IsSuccessStatus(last.status))
        => /\ last.outcome = "transport"
           /\ session_id = last.id

C4_Witness ==
    /\ last.op = "tools/list"
    /\ last.status = 404
    /\ last.id = 1
    /\ session_id = 1

\* C5: for all three operations a response with status >= 300, or with a
\* top-level `error` key in its JSON body, never yields a successful result.
C5_ErrorResponseNeverSucceeds ==
    (last.op # None /\ (last.status >= 300 \/ last.hasError))
        => last.outcome # "ok"

C5_Witness ==
    /\ last.op = "tools/call"
    /\ last.status = 200
    /\ last.hasError
    /\ last.outcome = "protocol"

\* C6: a successful discovery leaves the registry equal to the list of that
\* response, in the response's order, whatever an earlier discovery stored.
C6_DiscoverReplacesRegistry ==
    (last.op = "tools/list" /\ last.outcome = "ok")
        => tools = last.respTools

C6_Witness ==
    /\ last.op = "tools/list"
    /\ last.outcome = "ok"
    /\ last.toolsBefore = <<Tool("search", TRUE), Tool("query", TRUE)>>
    /\ tools = <<Tool("query", TRUE), Tool("search", TRUE)>>

\* ------------------------------------------------- authorization claims
\* The query string names a `code` parameter (with any value, blank or not).
HasCodeParam(q) == \E i \in 1..Len(q) : q[i].key = "code"

\* q[i] is the first `code` parameter of q that carries a value.
FirstCodeValueAt(q, i) ==
    /\ q[i].key = "code" /\ q[i].value # ""
    /\ \A j \in 1..(i - 1) : ~(q[j].key = "code" /\ q[j].value # "")

\* C7: in every invocation of the authorization flow, a redirect request
\* without a `code` parameter is answered 400, the flow fails with no
\* authorization code and nothing is posted to the token endpoint, also
\* when an earlier invocation captured a code.
C7_NoCodeNeverExchanges ==
    (auth.handled /\ ~HasCodeParam(auth.query))
        => /\ auth.status = 400
           /\ auth.outcome = "no_code"
           /\ auth.posts = 0

\* C8 (as claimed): every request whose query string contains a `code`
\* parameter is answered 200 and the code posted to the token endpoint is
\* a value that request carries.
C8_CodeRequestAnswered200 ==
    (auth.handled /\ HasCodeParam(auth.query))
        => /\ auth.status = 200
           /\ \E i \in 1..Len(auth.query) :
                  /\ auth.query[i].key = "code"
                  /\ auth.posted = auth.query[i].value

\* C8 (amended): every request whose query string contains a `code`
\* parameter with a non-empty value is answered 200, and the code posted
\* to the token endpoint, once, is the first non-empty `code` value of
\* that request, whatever an earlier invocation captured.
C8_NonEmptyCodeAnswered200 ==
    \A i \in 1..Len(auth.query) :
        (auth.handled /\ FirstCodeValueAt(auth.query, i))
            => /\ auth.status = 200
               /\ auth.posted = auth.query[i].value
               /\ auth.posts = 1

C8_Witness ==
    /\ authCount = 2
    /\ auth.codeBefore = "c1"
    /\ auth.handled
    /\ auth.query = <<Param("code", ""), Param("code", "c2")>>
    /\ auth.status = 200
    /\ auth.posted = "c2"

\* C9: one invocation of the authorization flow writes at most one HTTP
\* response, however many connection attempts arrive.
C9_AtMostOneResponse == auth.responses <= 1

C9_Witness ==
    /\ auth.responses = 1
    /\ authPc = "exchanging"
    /\ Len(backlog) = 2

\* C10: once the authorization flow has ended, in whatever way, the
\* listener's socket on the local port is no longer bound.
C10_ListenerReleasedAtEnd ==
    (authPc = "idle" /\ authCount > 0) => listener = 0

BodyComplete ==
    /\ last.op = "tools/list"
           => /\ last.hasTools
              /\ \A i \in 1..Len(last.respTools) : last.respTools[i].described
    /\ last.op = "tools/call" => last.hasResult

C17_WaitEndsWithoutRequest ==
    (authPc = "waiting" /\ backlog = <<>>) => ENABLED AuthProgramStep

\* C18: initialize and invoke_capability, whether they succeed or fail,
\* leave the registry exactly as it was.
C18_OnlyDiscoverChangesRegistry ==
    last.op \in {"initialize", "tools/call"} => tools = last.toolsBefore

C18_Witness ==
    /\ last.op = "tools/call"
    /\ last.outcome = "ok"
    /\ tools = <<Tool("search", TRUE), Tool("query", TRUE)>>
    /\ sent[2].env.method = "initialize"

\* C19: a discovery call that fails in any way leaves the registry and
\* next_id exactly as they were before the call.
C19_FailedDiscoverChangesNothing ==
    (last.op = "tools/list" /\ last.outcome # "ok")
        => /\ tools = last.toolsBefore
           /\ session_id = last.id

\* ------------------------------------------------------ main-flow claims
\* Nothing of the core has run: no browser opened, no listener bound, no
\* token or RPC request sent.
CoreUntouched ==
    /\ authCount = 0
    /\ ~auth.browser
    /\ listener = 0
    /\ auth.posts = 0
    /\ sent = <<>>

\* C11: after authenticate has returned successfully the session holds a
\* non-null access token, so no RPC request carries a null bearer.
C11_NoNullBearer ==
    /\ (authPc = "idle" /\ auth.outcome = "ok") => access_token # None
    /\ \A i \in 1..Len(sent) : sent[i].env.bearer # None

C15_FailedTurnKeepsSession ==
    turn.count > 0 =>
        /\ turn.endedBy = None => mainPc = "session"
        /\ turn.endedBy # None
               => (mainPc = "done" /\ turn.endedBy \in {"exit", "interrupt"})
        /\ last.op = "tools/list"
        /\ session_id = last.id + 1
        /\ tools = last.respTools

C15_Witness ==
    /\ turn.outcomes = <<"raised", "answered">>
    /\ mainPc = "session"
    /\ tools = <<Tool("search", TRUE), Tool("query", TRUE)>>

\* C16 (as claimed): when any of the seven configuration inputs is missing
\* at startup the program stops before the core activates.
C16_AnyMissingStopsProgram ==
    env # {"SNOWFLAKE_ACCOUNT", "OAUTH_CLIENT_ID", "OAUTH_CLIENT_SECRET",
           "SNOWFLAKE_DATABASE", "SNOWFLAKE_SCHEMA", "MCP_SERVER_NAME",
           "SNOWFLAKE_ROLE"}
        => CoreUntouched

\* C16 (amended): when the account identifier, the OAuth client id or the
\* OAuth client secret is missing at startup the program stops before the
\* core activates.
C16_MissingRequiredStopsProgram ==
    (\E v \in {"SNOWFLAKE_ACCOUNT", "OAUTH_CLIENT_ID", "OAUTH_CLIENT_SECRET"} :
         v \notin env)
        => CoreUntouched

C16_Witness ==
    /\ mainPc = "exit"
    /\ "OAUTH_CLIENT_SECRET" \notin env
    /\ "SNOWFLAKE_ACCOUNT" \in env
    /\ CoreUntouched

====
